---- MODULE Spec2Model ----
(***************************************************************************)
(* Generative-art gallery: the canvas-mounting wrapper and the page that   *)
(* selects a sketch, and the algorithmic sketches (maze generation, wave   *)
(* function collapse, Hilbert curve, circle packing, pixel sorting,        *)
(* cellular automata).  Each sketch owns its state, held here in one       *)
(* record per sketch whose fields keep the source's names.                 *)
(***************************************************************************)
EXTENDS Integers, Sequences, FiniteSets, TLC

VARIABLES wrapper, maze, wfc, hil, packing, sorting, automaton

vars == <<wrapper, maze, wfc, hil, packing, sorting, automaton>>

\* A sketch that is not the one on screen holds no state.
NotRunning == [running |-> FALSE]

\* JavaScript's undefined (a missing key of the registry) and null.
Undefined == "undefined"

Null == 0

Min(a, b) == IF a <= b THEN a ELSE b

Max(a, b) == IF a >= b THEN a ELSE b

(***************************************************************************)
(* lib/artworks: the catalog, and sketches/index: the registry.            *)
(***************************************************************************)
\* The catalog: the records of `artworks`, in order (the id is the only
\* field the routing reads).
artworks ==
    << [id |-> "flow-fields"],
       [id |-> "physarum"],
       [id |-> "reaction-diffusion"],
       [id |-> "strange-attractors"],
       [id |-> "recursive-subdivision"],
       [id |-> "circle-packing"],
       [id |-> "kinetic-typography"],
       [id |-> "audio-reactive"],
       [id |-> "shader-art"],
       [id |-> "vector-morphing"] >>

\* The registry `sketches`: artwork id -> sketch function (named by its import).
sketchEntries ==
    << <<"flow-fields", "flowFieldsSketch">>,
       <<"physarum", "physarumSketch">>,
       <<"reaction-diffusion", "reactionDiffusionSketch">>,
       <<"strange-attractors", "strangeAttractorsSketch">>,
       <<"recursive-subdivision", "recursiveSubdivisionSketch">>,
       <<"circle-packing", "circlePackingSketch">>,
       <<"kinetic-typography", "kineticTypographySketch">>,
       <<"audio-reactive", "audioReactiveSketch">>,
       <<"shader-art", "shaderArtSketch">>,
       <<"vector-morphing", "vectorMorphingSketch">>,
       <<"constellation", "constellationSketch">>,
       <<"voronoi", "voronoiSketch">>,
       <<"wireframe-terrain", "wireframeTerrainSketch">>,
       <<"magnetic-grid", "magneticGridSketch">>,
       <<"liquid-blobs", "liquidBlobsSketch">>,
       <<"ascii-rain", "asciiRainSketch">>,
       <<"cursor-trail", "cursorTrailSketch">>,
       <<"parallax-particles", "parallaxParticlesSketch">>,
       <<"geometric-wave", "geometricWaveSketch">>,
       <<"glitch-effect", "glitchEffectSketch">>,
       <<"superformula", "superformulaSketch">>,
       <<"fourier-series", "fourierSeriesSketch">>,
       <<"phyllotaxis", "phyllotaxisSketch">>,
       <<"de-jong-attractor", "deJongAttractorSketch">>,
       <<"maurer-rose", "maurerRoseSketch">>,
       <<"voronoi-delaunay", "voronoiDelaunaySketch">>,
       <<"complex-domain-coloring", "complexDomainColoringSketch">>,
       <<"chladni-patterns", "chladniPatternsSketch">>,
       <<"apollonian-gasket", "apollonianGasketSketch">>,
       <<"marching-squares", "marchingSquaresSketch">>,
       <<"levy-flight", "levyFlightSketch">>,
       <<"gravitational-attractor", "gravitationalAttractorSketch">>,
       <<"double-pendulum", "doublePendulumSketch">>,
       <<"particle-painting", "particlePaintingSketch">>,
       <<"autonomous-agents", "autonomousAgentsSketch">>,
       <<"flocking", "flockingSketch">>,
       <<"cellular-automata", "cellularAutomataSketch">>,
       <<"fractal-tree", "fractalTreeSketch">>,
       <<"genetic-algorithm", "geneticAlgorithmSketch">>,
       <<"neural-creatures", "neuralCreaturesSketch">>,
       <<"truchet-tiles", "truchetTilesSketch">>,
       <<"islamic-geometry", "islamicGeometrySketch">>,
       <<"quadtree-subdivision", "quadtreeSubdivisionSketch">>,
       <<"moire-patterns", "moirePatternsSketch">>,
       <<"l-system", "lSystemSketch">>,
       <<"isometric-projection", "isometricProjectionSketch">>,
       <<"circle-inversion", "circleInversionSketch">>,
       <<"hyperbolic-geometry", "hyperbolicGeometrySketch">>,
       <<"suprematism", "suprematismSketch">>,
       <<"penrose-tiling", "penroseTilingSketch">>,
       <<"wave-function-collapse", "waveFunctionCollapseSketch">>,
       <<"hilbert-curve", "hilbertCurveSketch">>,
       <<"chaos-game", "chaosGameSketch">>,
       <<"pixel-sorting", "pixelSortingSketch">>,
       <<"dithering", "ditheringSketch">>,
       <<"spirograph", "spirographSketch">>,
       <<"maze-generation", "mazeGenerationSketch">>,
       <<"voronoi-stippling", "voronoiStipplingSketch">>,
       <<"celtic-knots", "celticKnotsSketch">>,
       <<"metaballs", "metaballsSketch">> >>

sketchKeys == {sketchEntries[i][1] : i \in 1..Len(sketchEntries)}

sketches == [k \in sketchKeys |->
               sketchEntries[CHOOSE i \in 1..Len(sketchEntries) : sketchEntries[i][1] = k][2]]

\* getArtwork: artworks.find(art => art.id === id).  The result, an Artwork or
\* undefined, is a sequence of at most one record.
getArtwork(id) ==
    LET hits == {i \in 1..Len(artworks) : artworks[i].id = id}
    IN  IF hits = {} THEN <<>>
        ELSE <<artworks[CHOOSE i \in hits : \A j \in hits : i <= j]>>

\* A registry that lost the key of one catalog entry.
getSketchKeyMissing(id) ==
    IF id \in sketchKeys \ {"circle-packing"} THEN sketches[id] ELSE Undefined

\* getSketch: sketches[id]
getSketch(id) ==
    IF id \in sketchKeys THEN sketches[id] ELSE Undefined

(***************************************************************************)
(* components/P5Wrapper and app/art/[id]/page (ArtPage).                   *)
(*                                                                         *)
(* wrapper.route      the page shown: "/" or the id of /art/<id>           *)
(* wrapper.view       what is rendered: Home, NotFound or P5Wrapper        *)
(* wrapper.sketch     the sketch prop of the mounted P5Wrapper             *)
(* wrapper.mounts     one entry per P5Wrapper mounted so far, the last one *)
(*                    being the one on screen if any, with its two refs:   *)
(*                    containerRef (containerRef.current is set) and       *)
(*                    p5InstanceRef (Null or an instance)                  *)
(* wrapper.pending    the initP5 calls waiting at `await import('p5')`,    *)
(*                    each with the sketch its effect closed over and the  *)
(*                    mount whose refs it closed over                      *)
(* wrapper.instances  every p5 instance constructed so far                 *)
(* wrapper.effects    how many times the effect has run                    *)
(***************************************************************************)
\* Effect runs explored (each starts one import and may construct one instance).
MaxEffects == 3

\* The ids a visitor may navigate to: the catalog, two ids the registry alone
\* knows, and one nobody knows.
NavIds ==
    {artworks[i].id : i \in 1..Len(artworks)}
        \cup {"maze-generation", "hilbert-curve", "no-such-artwork"}

Mounted(w) == w.view = "P5Wrapper"

\* The live instances (constructed, not removed) of mount m.
Live(w, m) == {i \in 1..Len(w.instances) : w.instances[i].mount = m /\ ~w.instances[i].removed}

\* new p5Constructor(sketch, containerRef.current), kept in the mount's ref.
construct(w, call) ==
    [w EXCEPT !.instances = Append(@, [sketch |-> call.sketch, mount |-> call.mount,
                                       removed |-> FALSE]),
              !.mounts[call.mount].p5InstanceRef = Len(w.instances) + 1]

\* initP5 after the await, without the test of p5InstanceRef.current.
initP5NoInstanceGuard(w, call) ==
    IF w.mounts[call.mount].containerRef THEN construct(w, call) ELSE w

\* initP5 after the await, without the test of containerRef.current.
initP5NoContainerGuard(w, call) ==
    IF w.mounts[call.mount].p5InstanceRef = Null THEN construct(w, call) ELSE w

\* initP5 after `await import('p5')`: construct the instance with the sketch of
\* the effect that called it, unless the container is gone or an instance exists.
initP5(w, call) ==
    IF w.mounts[call.mount].containerRef /\ w.mounts[call.mount].p5InstanceRef = Null
    THEN construct(w, call)
    ELSE w

\* The effect body of the wrapper on screen: initP5() is called and suspends at
\* the import.
effectRun(w, sketch) ==
    [w EXCEPT !.pending = Append(@, [sketch |-> sketch, mount |-> Len(w.mounts)]),
              !.effects = @ + 1]

\* The effect's cleanup, for the wrapper on screen.
effectCleanup(w) ==
    LET m == Len(w.mounts)
    IN  IF w.mounts[m].p5InstanceRef # Null
        THEN [w EXCEPT !.instances[w.mounts[m].p5InstanceRef].removed = TRUE,
                       !.mounts[m].p5InstanceRef = Null]
        ELSE w

\* React unmounts P5Wrapper: the ref of the <div> is detached, the cleanup runs.
unmountWrapper(w) ==
    IF Mounted(w)
    THEN effectCleanup([w EXCEPT !.mounts[Len(w.mounts)].containerRef = FALSE])
    ELSE w

\* React renders <P5Wrapper sketch={sketch}>: mount it (new refs, the <div>
\* attached, the effect run), or on a changed dependency run the cleanup and
\* the effect again.
renderWrapper(w, sketch) ==
    IF ~Mounted(w)
    THEN effectRun([w EXCEPT !.view = "P5Wrapper", !.sketch = sketch,
                             !.mounts = Append(@, [containerRef |-> TRUE,
                                                   p5InstanceRef |-> Null])],
                   sketch)
    ELSE IF w.sketch # sketch
    THEN effectRun(effectCleanup([w EXCEPT !.sketch = sketch]), sketch)
    ELSE w

\* ArtPage for params.id = id.
ArtPage(w, id) ==
    LET artwork == getArtwork(id)
        sketch  == getSketch(id)
    IN  IF artwork = <<>> \/ sketch = Undefined
        THEN [unmountWrapper(w) EXCEPT !.route = id, !.view = "NotFound"]
        ELSE [renderWrapper(w, sketch) EXCEPT !.route = id]

InitWrapper ==
    /\ wrapper = [route |-> "/", view |-> "Home", sketch |-> Undefined,
                  mounts |-> <<>>, pending |-> <<>>, instances |-> <<>>,
                  effects |-> 0]
    /\ maze = NotRunning /\ wfc = NotRunning /\ hil = NotRunning
    /\ packing = NotRunning /\ sorting = NotRunning /\ automaton = NotRunning

\* A link or URL to /art/<id>.
Navigate(id) ==
    /\ wrapper.effects < MaxEffects
    /\ wrapper' = ArtPage(wrapper, id)
    /\ UNCHANGED <<maze, wfc, hil, packing, sorting, automaton>>

\* The "Gallery" link: the art page goes away.
GoHome ==
    /\ wrapper.route # "/"
    /\ wrapper' = [unmountWrapper(wrapper) EXCEPT !.route = "/", !.view = "Home"]
    /\ UNCHANGED <<maze, wfc, hil, packing, sorting, automaton>>

\* React replays the effect of a mounted wrapper (Strict Mode, fast refresh):
\* cleanup, then the effect again with the same sketch.
ReplayEffect ==
    /\ Mounted(wrapper)
    /\ wrapper.effects < MaxEffects
    /\ wrapper' = effectRun(effectCleanup(wrapper), wrapper.sketch)
    /\ UNCHANGED <<maze, wfc, hil, packing, sorting, automaton>>

\* One pending import('p5') resolves and its initP5 continues.
ImportResolved(i) ==
    /\ i \in 1..Len(wrapper.pending)
    /\ wrapper' = initP5([wrapper EXCEPT !.pending =
                              SubSeq(@, 1, i - 1) \o SubSeq(@, i + 1, Len(@))],
                         wrapper.pending[i])
    /\ UNCHANGED <<maze, wfc, hil, packing, sorting, automaton>>

NextWrapper ==
    \/ \E id \in NavIds : Navigate(id)
    \/ GoHome
    \/ ReplayEffect
    \/ \E i \in 1..MaxEffects : ImportResolved(i)

SpecWrapper == InitWrapper /\ [][NextWrapper]_vars

\* C1: once every pending import has resolved, a live instance of the mounted
\* wrapper was constructed with the sketch the wrapper is given now, never
\* with a sketch it was given before.
C1_LiveInstanceHasCurrentSketch ==
    (Mounted(wrapper) /\ wrapper.pending = <<>>)
        => \A i \in Live(wrapper, Len(wrapper.mounts)) :
               wrapper.instances[i].sketch = wrapper.sketch

\* C2: no wrapper ever has more than one live p5 instance (constructed and not
\* removed).
C2_AtMostOneLiveInstance ==
    \A m \in 1..Len(wrapper.mounts) : Cardinality(Live(wrapper, m)) <= 1

\* The effect of one mounted wrapper ran at least twice before any import
\* resolved, the imports have resolved, and one instance was constructed and is
\* live.
C2_Witness ==
    /\ Mounted(wrapper)
    /\ Len(wrapper.mounts) = 1
    /\ wrapper.effects >= 2
    /\ wrapper.pending = <<>>
    /\ Len(wrapper.instances) = 1
    /\ Live(wrapper, 1) = {1}

\* C3: once a wrapper is unmounted and its pending imports have resolved, every
\* instance it ever constructed has been removed.
C3_NoLiveInstanceAfterUnmount ==
    \A m \in 1..Len(wrapper.mounts) :
        (/\ ~wrapper.mounts[m].containerRef
         /\ \A k \in 1..Len(wrapper.pending) : wrapper.pending[k].mount # m)
            => \A i \in 1..Len(wrapper.instances) :
                   wrapper.instances[i].mount = m => wrapper.instances[i].removed

\* Nothing is mounted or pending, after one import resolved before the cleanup
\* (its instance was removed) and another resolved after it (it built nothing).
C3_Witness ==
    /\ ~Mounted(wrapper)
    /\ wrapper.pending = <<>>
    /\ wrapper.effects > Len(wrapper.instances)
    /\ Len(wrapper.instances) >= 1
    /\ \A i \in 1..Len(wrapper.instances) : wrapper.instances[i].removed

\* C4: for every id of the catalog, ArtPage renders the P5Wrapper with the sketch
\* registered under that id, never the "Artwork Not Found" view.
C4_CatalogIdsRenderTheirSketch ==
    (\E i \in 1..Len(artworks) : artworks[i].id = wrapper.route)
        => /\ wrapper.view = "P5Wrapper"
           /\ wrapper.sketch = sketches[wrapper.route]

\* The last artwork of the catalog is on screen.
C4_Witness ==
    /\ wrapper.route = artworks[Len(artworks)].id
    /\ wrapper.view = "P5Wrapper"
    /\ wrapper.sketch = "vectorMorphingSketch"

(***************************************************************************)
(* sketches/mazeGeneration.                                                *)
(*                                                                         *)
(* maze.width, maze.height  the canvas size (p.width, p.height)            *)
(* maze.cols, rows, grid, stack, current, algorithm, isGenerating,         *)
(* fastMode, frontier, walls, sets: the sketch's variables.  A cell is its *)
(* pair <<x, y>>; grid[c] holds its visited flag and its four walls        *)
(* (0 top, 1 right, 2 bottom, 3 left); current is << >> (null) or <<c>>.   *)
(* initGrid shuffles `walls` and stepKruskals pops them one by one: every  *)
(* order is possible, so maze.walls is the set of walls not yet popped and *)
(* a pop yields any of them.                                               *)
(* maze.pc, maze.i, maze.wall, maze.fs: where the running handler is       *)
(* ("idle": none runs; "draw": in draw's loop before its next step();      *)
(* "findSet": in findSet's while loop), draw's loop variable i, the wall   *)
(* stepKruskals popped and findSet's locals.                               *)
(***************************************************************************)
CELL_SIZE == 20

\* The largest canvas explored, in cells.
MaxCols == 3

MaxRows == 3

WindowWidths == {CELL_SIZE * c : c \in 1..MaxCols}

WindowHeights == {CELL_SIZE * r : r \in 1..MaxRows}

Cells(cols, rows) == (0..(cols - 1)) \X (0..(rows - 1))

NoFindSet == [call |-> 0, cell |-> <<0, 0>>, current |-> <<0, 0>>, id |-> 0, set1 |-> 0]

NoWall == [cell1 |-> <<0, 0>>, cell2 |-> <<0, 0>>]

\* The elements of a sequence that satisfy a test, in order (Array.filter).
Filter(seq, keep) ==
    LET upTo[n \in 0..Len(seq)] ==
            IF n = 0 THEN <<>>
            ELSE IF seq[n] \in keep THEN Append(upTo[n - 1], seq[n]) ELSE upTo[n - 1]
    IN  upTo[Len(seq)]

Range(seq) == {seq[k] : k \in 1..Len(seq)}

getNeighbors(m, cell) ==
    LET x == cell[1]
        y == cell[2]
    IN  (IF y > 0 THEN << <<x, y - 1>> >> ELSE <<>>)
        \o (IF x < m.cols - 1 THEN << <<x + 1, y>> >> ELSE <<>>)
        \o (IF y < m.rows - 1 THEN << <<x, y + 1>> >> ELSE <<>>)
        \o (IF x > 0 THEN << <<x - 1, y>> >> ELSE <<>>)

VisitedCells(m) == {c \in DOMAIN m.grid : m.grid[c].visited}

getUnvisitedNeighbors(m, cell) ==
    Filter(getNeighbors(m, cell), DOMAIN m.grid \ VisitedCells(m))

removeWall(grid, a, b) ==
    LET dx == a[1] - b[1]
        dy == a[2] - b[2]
    IN  IF dx = 1 THEN [grid EXCEPT ![a].walls[3] = FALSE, ![b].walls[1] = FALSE]
        ELSE IF dx = -1 THEN [grid EXCEPT ![a].walls[1] = FALSE, ![b].walls[3] = FALSE]
        ELSE IF dy = 1 THEN [grid EXCEPT ![a].walls[0] = FALSE, ![b].walls[2] = FALSE]
        ELSE IF dy = -1 THEN [grid EXCEPT ![a].walls[2] = FALSE, ![b].walls[0] = FALSE]
        ELSE grid

\* frontier.push(neighbor) for each neighbor the frontier does not include
\* (the neighbours of a cell are distinct).
PushNew(frontier, neighbors) ==
    frontier \o Filter(neighbors, Range(neighbors) \ Range(frontier))

addToFrontier(m, cell) ==
    [m EXCEPT !.frontier = PushNew(m.frontier, getUnvisitedNeighbors(m, cell))]

\* The walls initGrid lists for Kruskal's algorithm: each cell with its right
\* and its bottom neighbour.
AllWalls(cols, rows) ==
    {[cell1 |-> c, cell2 |-> <<c[1] + 1, c[2]>>] : c \in {d \in Cells(cols, rows) : d[1] < cols - 1}}
        \cup {[cell1 |-> c, cell2 |-> <<c[1], c[2] + 1>>] : c \in {d \in Cells(cols, rows) : d[2] < rows - 1}}

\* initGrid; start is the cell Prim's algorithm draws at random.
initGrid(m, start) ==
    LET cols == m.width \div CELL_SIZE
        rows == m.height \div CELL_SIZE
        fresh == [c \in Cells(cols, rows) |->
                    [visited |-> FALSE, walls |-> [k \in 0..3 |-> TRUE]]]
        base == [m EXCEPT !.cols = cols, !.rows = rows, !.grid = fresh,
                          !.stack = <<>>, !.frontier = <<>>, !.walls = {},
                          !.sets = << >>, !.isGenerating = TRUE]
    IN  IF m.algorithm = 0
        THEN [base EXCEPT !.current = << <<0, 0>> >>,
                          !.grid[<<0, 0>>].visited = TRUE]
        ELSE IF m.algorithm = 1
        THEN addToFrontier([base EXCEPT !.current = <<start>>,
                                        !.grid[start].visited = TRUE], start)
        ELSE IF m.algorithm = 2
        THEN [base EXCEPT !.sets = [c \in Cells(cols, rows) |-> c[1] * rows + c[2]],
                          !.walls = AllWalls(cols, rows)]
        ELSE base

\* The start cells initGrid may draw: one of the grid for Prim's algorithm.
StartCells(m) ==
    IF m.algorithm = 1
    THEN Cells(m.width \div CELL_SIZE, m.height \div CELL_SIZE)
    ELSE {<<0, 0>>}

\* stepDFS that stops at the first dead end instead of backtracking.
stepDFSNoBacktrack(m, k) ==
    LET neighbors == getUnvisitedNeighbors(m, m.current[1])
    IN  IF Len(neighbors) > 0
        THEN LET next == neighbors[k + 1]
             IN  [m EXCEPT !.stack = Append(@, m.current[1]),
                           !.grid = [removeWall(@, m.current[1], next)
                                        EXCEPT ![next].visited = TRUE],
                           !.current = <<next>>]
        ELSE [m EXCEPT !.isGenerating = FALSE]

\* stepDFS; k is Math.floor(p.random(neighbors.length)).
stepDFS(m, k) ==
    IF m.current # <<>>
    THEN LET neighbors == getUnvisitedNeighbors(m, m.current[1])
         IN  IF Len(neighbors) > 0
             THEN LET next == neighbors[k + 1]
                  IN  [m EXCEPT !.stack = Append(@, m.current[1]),
                                !.grid = [removeWall(@, m.current[1], next)
                                             EXCEPT ![next].visited = TRUE],
                                !.current = <<next>>]
             ELSE IF Len(m.stack) > 0
             THEN [m EXCEPT !.current = <<m.stack[Len(m.stack)]>>,
                            !.stack = SubSeq(@, 1, Len(@) - 1)]
             ELSE [m EXCEPT !.isGenerating = FALSE]
    ELSE m

\* The values k may take in stepDFS.
DFSChoices(m) ==
    IF m.current # <<>> /\ Len(getUnvisitedNeighbors(m, m.current[1])) > 0
    THEN 0..(Len(getUnvisitedNeighbors(m, m.current[1])) - 1)
    ELSE {0}

\* stepPrims that connects the new cell to any neighbour, visited or not.
stepPrimsAnyNeighbor(m, randomIndex, k) ==
    IF Len(m.frontier) > 0
    THEN LET cell == m.frontier[randomIndex + 1]
             rest == [m EXCEPT !.frontier = SubSeq(@, 1, randomIndex)
                                              \o SubSeq(@, randomIndex + 2, Len(@))]
         IN  IF ~m.grid[cell].visited
             THEN LET marked == [rest EXCEPT !.grid[cell].visited = TRUE]
                      anyNeighbors == getNeighbors(marked, cell)
                      joined == IF Len(anyNeighbors) > 0
                                THEN [marked EXCEPT !.grid =
                                        removeWall(@, cell, anyNeighbors[k + 1])]
                                ELSE marked
                  IN  CHOOSE stepped \in {[addToFrontier(j, cell) EXCEPT !.current = <<cell>>] :
                                             j \in {joined}} : TRUE
             ELSE rest
    ELSE [m EXCEPT !.isGenerating = FALSE]

\* stepPrims; randomIndex and k are the two values it draws.
stepPrims(m, randomIndex, k) ==
    IF Len(m.frontier) > 0
    THEN LET cell == m.frontier[randomIndex + 1]
             rest == [m EXCEPT !.frontier = SubSeq(@, 1, randomIndex)
                                              \o SubSeq(@, randomIndex + 2, Len(@))]
         IN  IF ~m.grid[cell].visited
             THEN LET marked == [rest EXCEPT !.grid[cell].visited = TRUE]
                      visitedNeighbors ==
                          Filter(getNeighbors(marked, cell), VisitedCells(marked))
                      joined == IF Len(visitedNeighbors) > 0
                                THEN [marked EXCEPT !.grid =
                                        removeWall(@, cell, visitedNeighbors[k + 1])]
                                ELSE marked
                  IN  CHOOSE stepped \in {[addToFrontier(j, cell) EXCEPT !.current = <<cell>>] :
                                             j \in {joined}} : TRUE
             ELSE rest
    ELSE [m EXCEPT !.isGenerating = FALSE]

\* The values randomIndex may take in stepPrims, and k for a given randomIndex.
PrimIndexChoices(m) ==
    IF Len(m.frontier) > 0 THEN 0..(Len(m.frontier) - 1) ELSE {0}

PrimNeighborChoices(m, randomIndex) ==
    LET n == IF Len(m.frontier) > 0
             THEN Len(Filter(getNeighbors(m, m.frontier[randomIndex + 1]), VisitedCells(m)))
             ELSE 0
    IN  IF n > 0 THEN 0..(n - 1) ELSE {0}

\* draw's loop after a step() returned: `if (!isGenerating) break`, i++, and the
\* handler ends when the loop does.
endStep(m) ==
    LET iterations == IF m.fastMode THEN 10 ELSE 1
    IN  IF ~m.isGenerating \/ m.i + 1 >= iterations
        THEN [m EXCEPT !.pc = "idle", !.i = 0, !.fs = NoFindSet, !.wall = NoWall]
        ELSE [m EXCEPT !.pc = "draw", !.i = @ + 1, !.fs = NoFindSet, !.wall = NoWall]

\* findSet(cell) is entered by call number `call` (1, 2: stepKruskals' set1, set2;
\* 3, 4: unionSets' set1, set2); set1 is the caller's first result.
enterFindSet(m, call, cell, set1) ==
    [m EXCEPT !.pc = "findSet",
              !.fs = [call |-> call, cell |-> cell, current |-> cell,
                      id |-> m.sets[cell], set1 |-> set1]]

\* stepKruskals at the head of `while (walls.length > 0)`; w is the wall popped.
kruskalsLoop(m, w) ==
    IF m.walls # {}
    THEN enterFindSet([m EXCEPT !.walls = @ \ {w}, !.wall = w], 1, w.cell1, 0)
    ELSE endStep([m EXCEPT !.isGenerating = FALSE])

WallChoices(m) == IF m.walls # {} THEN m.walls ELSE {NoWall}

\* The first entry of `sets`, in insertion order, of another cell with this id.
OtherInSet(m) ==
    LET others == {c \in DOMAIN m.sets : m.sets[c] = m.fs.id /\ c # m.fs.current}
    IN  IF others = {} THEN <<>>
        ELSE <<CHOOSE c \in others :
                  \A d \in others : c[1] * m.rows + c[2] <= d[1] * m.rows + d[2]>>

\* findSet returns sets.get(cell) to its caller, which goes on; w is the wall
\* stepKruskals pops if its loop goes round.
findSetReturns(m, w) ==
    LET result == m.sets[m.fs.cell]
    IN  IF m.fs.call = 1
        THEN enterFindSet(m, 2, m.wall.cell2, result)
        ELSE IF m.fs.call = 2
        THEN IF m.fs.set1 # result
             THEN enterFindSet([m EXCEPT !.grid = removeWall(@, m.wall.cell1, m.wall.cell2)],
                               3, m.wall.cell1, 0)
             ELSE kruskalsLoop(m, w)
        ELSE IF m.fs.call = 3
        THEN enterFindSet(m, 4, m.wall.cell2, result)
        ELSE endStep([m EXCEPT
                 !.sets = IF m.fs.set1 # result
                          THEN [c \in DOMAIN m.sets |->
                                  IF m.sets[c] = result THEN m.fs.set1 ELSE m.sets[c]]
                          ELSE @,
                 !.grid = [@ EXCEPT ![m.wall.cell1].visited = TRUE,
                                    ![m.wall.cell2].visited = TRUE],
                 !.current = <<m.wall.cell2>>])

\* One round of findSet's `while (true)`: move to another cell of the set if
\* there is one (the array `visited` it pushes to is never read), else return.
findSetRound(m, w) ==
    IF OtherInSet(m) # <<>>
    THEN [m EXCEPT !.fs.current = OtherInSet(m)[1],
                   !.fs.id = m.sets[OtherInSet(m)[1]]]
    ELSE findSetReturns(m, w)

\* p.setup in a window of the given size: createCanvas, then initGrid.
setupMaze(w, h) ==
    initGrid([width |-> w, height |-> h, cols |-> 0, rows |-> 0,
              grid |-> << >>, stack |-> <<>>, current |-> <<>>,
              algorithm |-> 0, isGenerating |-> FALSE, fastMode |-> FALSE,
              frontier |-> <<>>, walls |-> {}, sets |-> << >>,
              pc |-> "idle", i |-> 0, wall |-> NoWall, fs |-> NoFindSet],
             <<0, 0>>)

InitMaze ==
    /\ \E w \in WindowWidths, h \in WindowHeights : maze = setupMaze(w, h)
    /\ wrapper = NotRunning /\ wfc = NotRunning /\ hil = NotRunning
    /\ packing = NotRunning /\ sorting = NotRunning /\ automaton = NotRunning

\* draw calls step() (the first time in a frame, or again in its loop).
InDrawLoop(alg) ==
    /\ maze.algorithm = alg
    /\ \/ maze.pc = "idle" /\ maze.isGenerating
       \/ maze.pc = "draw"

DrawStepDFS ==
    /\ InDrawLoop(0)
    /\ \E k \in DFSChoices(maze) :
           \E stepped \in {stepDFS(maze, k)} : maze' = endStep(stepped)
    /\ UNCHANGED <<wrapper, wfc, hil, packing, sorting, automaton>>

DrawStepPrims ==
    /\ InDrawLoop(1)
    /\ \E randomIndex \in PrimIndexChoices(maze) :
           \E k \in PrimNeighborChoices(maze, randomIndex) :
               \E stepped \in {stepPrims(maze, randomIndex, k)} : maze' = endStep(stepped)
    /\ UNCHANGED <<wrapper, wfc, hil, packing, sorting, automaton>>

DrawStepKruskals ==
    /\ InDrawLoop(2)
    /\ \E w \in WallChoices(maze) : maze' = kruskalsLoop(maze, w)
    /\ UNCHANGED <<wrapper, wfc, hil, packing, sorting, automaton>>

FindSetRound ==
    /\ maze.pc = "findSet"
    /\ \E w \in WallChoices(maze) : maze' = findSetRound(maze, w)
    /\ UNCHANGED <<wrapper, wfc, hil, packing, sorting, automaton>>

MazeMousePressed ==
    /\ maze.pc = "idle"
    /\ \E start \in StartCells(maze) : maze' = initGrid(maze, start)
    /\ UNCHANGED <<wrapper, wfc, hil, packing, sorting, automaton>>

MazeKeyPressed(key) ==
    /\ maze.pc = "idle"
    /\ IF key \in {"1", "2", "3"}
       THEN LET chosen == [maze EXCEPT !.algorithm =
                               IF key = "1" THEN 0 ELSE IF key = "2" THEN 1 ELSE 2]
            IN  \E start \in StartCells(chosen) : maze' = initGrid(chosen, start)
       ELSE IF key = " "
       THEN maze' = [maze EXCEPT !.fastMode = ~@]
       ELSE maze' = maze
    /\ UNCHANGED <<wrapper, wfc, hil, packing, sorting, automaton>>

MazeWindowResized(w, h) ==
    /\ maze.pc = "idle"
    /\ LET resized == [maze EXCEPT !.width = w, !.height = h]
       IN  \E start \in StartCells(resized) : maze' = initGrid(resized, start)
    /\ UNCHANGED <<wrapper, wfc, hil, packing, sorting, automaton>>

MazeRuns ==
    \/ DrawStepDFS
    \/ DrawStepPrims
    \/ DrawStepKruskals
    \/ FindSetRound

NextMaze ==
    \/ DrawStepDFS
    \/ DrawStepPrims
    \/ DrawStepKruskals
    \/ FindSetRound
    \/ MazeMousePressed
    \/ \E key \in {"1", "2", "3", " "} : MazeKeyPressed(key)
    \/ \E w \in WindowWidths, h \in WindowHeights : MazeWindowResized(w, h)

SpecMaze == InitMaze /\ [][NextMaze]_vars

\* A run the visitor leaves alone: the state initGrid leaves for the algorithm
\* and the speed chosen with the keys, then draw frames only, which p5 keeps
\* calling.
InitMazeRun ==
    /\ \E w \in WindowWidths, h \in WindowHeights, alg \in 0..2, fast \in BOOLEAN :
           LET chosen == [setupMaze(w, h) EXCEPT !.algorithm = alg, !.fastMode = fast]
           IN  \E start \in StartCells(chosen) : maze = initGrid(chosen, start)
    /\ wrapper = NotRunning /\ wfc = NotRunning /\ hil = NotRunning
    /\ packing = NotRunning /\ sorting = NotRunning /\ automaton = NotRunning

LiveSpecMaze == InitMazeRun /\ [][MazeRuns]_vars /\ WF_vars(MazeRuns)

\* The passages of the maze: the pairs of adjacent cells with no wall between.
Passages(m) ==
    {<<a, b>> \in (DOMAIN m.grid) \X (DOMAIN m.grid) :
        \/ b = <<a[1] + 1, a[2]>> /\ ~m.grid[a].walls[1] /\ ~m.grid[b].walls[3]
        \/ b = <<a[1], a[2] + 1>> /\ ~m.grid[a].walls[2] /\ ~m.grid[b].walls[0]}

\* A removed wall is removed on both of its sides, and never on the border.
WallsConsistent(m) ==
    \A a \in DOMAIN m.grid :
        /\ ~m.grid[a].walls[1] => <<a, <<a[1] + 1, a[2]>> >> \in Passages(m)
        /\ ~m.grid[a].walls[2] => <<a, <<a[1], a[2] + 1>> >> \in Passages(m)
        /\ ~m.grid[a].walls[3] => << <<a[1] - 1, a[2]>>, a>> \in Passages(m)
        /\ ~m.grid[a].walls[0] => << <<a[1], a[2] - 1>>, a>> \in Passages(m)

RECURSIVE ReachedFrom(_, _)
ReachedFrom(m, seen) ==
    LET more == {b \in DOMAIN m.grid :
                    \E a \in seen : <<a, b>> \in Passages(m) \/ <<b, a>> \in Passages(m)}
    IN  IF more \subseteq seen THEN seen ELSE ReachedFrom(m, seen \cup more)

\* Every cell visited, and the passages a spanning tree of the grid.
PerfectMaze(m) ==
    /\ \A c \in DOMAIN m.grid : m.grid[c].visited
    /\ WallsConsistent(m)
    /\ ReachedFrom(m, {<<0, 0>>}) = DOMAIN m.grid
    /\ Cardinality(Passages(m)) = m.cols * m.rows - 1

\* C5: when the Depth-First Search has ended, the maze is perfect.
C5_DFSMazeIsPerfect ==
    (maze.algorithm = 0 /\ ~maze.isGenerating) => PerfectMaze(maze)

\* A finished Depth-First Search maze on the largest grid.
C5_Witness ==
    /\ maze.algorithm = 0
    /\ ~maze.isGenerating
    /\ maze.cols = MaxCols
    /\ maze.rows = MaxRows
    /\ PerfectMaze(maze)

\* C6: when Prim's algorithm has ended, the maze is perfect.
C6_PrimsMazeIsPerfect ==
    (maze.algorithm = 1 /\ ~maze.isGenerating) => PerfectMaze(maze)

\* A finished Prim's maze on the largest grid.
C6_Witness ==
    /\ maze.algorithm = 1
    /\ ~maze.isGenerating
    /\ maze.cols = MaxCols
    /\ maze.rows = MaxRows
    /\ maze.frontier = <<>>
    /\ PerfectMaze(maze)

\* The status reads 'Complete' (or the grid has fewer than two cells).
GenerationComplete ==
    maze.cols * maze.rows >= 2 => ~maze.isGenerating

\* C7: on a grid of at least two cells, generation ends: every step() returns
\* and isGenerating becomes false, for each of the three algorithms.
C7_GenerationCompletes == <>GenerationComplete

(***************************************************************************)
(* sketches/waveFunctionCollapse.                                          *)
(*                                                                         *)
(* wfc.width, wfc.height  the canvas size (p.width, p.height)              *)
(* wfc.cols, rows, grid, tileSetIndex, isGenerating, stepMode: the         *)
(* sketch's variables; grid[<<x, y>>] is grid[x][y], a cell with its       *)
(* collapsed flag and its options, the list of tile indices (from 0).      *)
(* wfc.pc, wfc.i: whether draw is in its loop ("draw": before its next     *)
(* step(); "idle": no handler runs) and the loop variable i.               *)
(***************************************************************************)
TILE_SIZE == 20

\* The largest canvas explored, in tiles.
MaxTileCols == 3

MaxTileRows == 2

TileWindowWidths == {TILE_SIZE * c : c \in 1..MaxTileCols}

TileWindowHeights == {TILE_SIZE * r : r \in 1..MaxTileRows}

\* The pipe tile set; edges are top, right, bottom, left.
pipeTiles ==
    << [name |-> "empty",      edges |-> <<"0", "0", "0", "0">>],
       [name |-> "cross",      edges |-> <<"1", "1", "1", "1">>],
       [name |-> "vertical",   edges |-> <<"1", "0", "1", "0">>],
       [name |-> "horizontal", edges |-> <<"0", "1", "0", "1">>],
       [name |-> "corner-tr",  edges |-> <<"1", "1", "0", "0">>],
       [name |-> "corner-br",  edges |-> <<"0", "1", "1", "0">>],
       [name |-> "corner-bl",  edges |-> <<"0", "0", "1", "1">>],
       [name |-> "corner-tl",  edges |-> <<"1", "0", "0", "1">>],
       [name |-> "t-top",      edges |-> <<"1", "1", "0", "1">>],
       [name |-> "t-bottom",   edges |-> <<"0", "1", "1", "1">>],
       [name |-> "t-left",     edges |-> <<"1", "0", "1", "1">>],
       [name |-> "t-right",    edges |-> <<"1", "1", "1", "0">>] >>

currentTiles == pipeTiles

\* currentTiles[option].edges[side], both counted from 0 as in the source.
tileEdge(option, side) == currentTiles[option + 1].edges[side + 1]

\* initGrid: every cell uncollapsed with every tile as an option.
initTiles(w) ==
    LET cols == w.width \div TILE_SIZE
        rows == w.height \div TILE_SIZE
    IN  [w EXCEPT !.cols = cols, !.rows = rows,
                  !.grid = [c \in Cells(cols, rows) |->
                              [collapsed |-> FALSE,
                               options |-> [k \in 1..Len(currentTiles) |-> k - 1]]],
                  !.isGenerating = TRUE]

\* getLowestEntropyCell that passes over the cells with one or two options left.
getLowestEntropyCellAboveTwo(w) ==
    LET open == {c \in DOMAIN w.grid :
                    ~w.grid[c].collapsed /\ Len(w.grid[c].options) > 2}
    IN  {c \in open : \A d \in open : Len(w.grid[c].options) <= Len(w.grid[d].options)}

\* getLowestEntropyCell: the candidates, one of which it returns at random
\* (none: it returns null).
getLowestEntropyCell(w) ==
    LET open == {c \in DOMAIN w.grid :
                    ~w.grid[c].collapsed /\ Len(w.grid[c].options) > 0}
    IN  {c \in open : \A d \in open : Len(w.grid[c].options) <= Len(w.grid[d].options)}

\* collapseCell; k is Math.floor(p.random(cell.options.length)).
collapseCell(w, c, k) ==
    IF Len(w.grid[c].options) = 0 THEN w
    ELSE [w EXCEPT !.grid[c] = [collapsed |-> TRUE, options |-> <<w.grid[c].options[k + 1]>>]]

\* The test of one option in propagate that reads the neighbour's edge on the
\* same side instead of the facing one.
validOptionSameSide(w, c, option) ==
    LET x == c[1]
        y == c[2]
    IN  /\ (y > 0 /\ w.grid[<<x, y - 1>>].collapsed)
              => tileEdge(option, 0) = tileEdge(w.grid[<<x, y - 1>>].options[1], 0)
        /\ (x < w.cols - 1 /\ w.grid[<<x + 1, y>>].collapsed)
              => tileEdge(option, 1) = tileEdge(w.grid[<<x + 1, y>>].options[1], 1)
        /\ (y < w.rows - 1 /\ w.grid[<<x, y + 1>>].collapsed)
              => tileEdge(option, 2) = tileEdge(w.grid[<<x, y + 1>>].options[1], 2)
        /\ (x > 0 /\ w.grid[<<x - 1, y>>].collapsed)
              => tileEdge(option, 3) = tileEdge(w.grid[<<x - 1, y>>].options[1], 3)

\* The test of one option of cell c in propagate: `valid` after the four checks.
validOption(w, c, option) ==
    LET x == c[1]
        y == c[2]
    IN  /\ (y > 0 /\ w.grid[<<x, y - 1>>].collapsed)
              => tileEdge(option, 0) = tileEdge(w.grid[<<x, y - 1>>].options[1], 2)
        /\ (x < w.cols - 1 /\ w.grid[<<x + 1, y>>].collapsed)
              => tileEdge(option, 1) = tileEdge(w.grid[<<x + 1, y>>].options[1], 3)
        /\ (y < w.rows - 1 /\ w.grid[<<x, y + 1>>].collapsed)
              => tileEdge(option, 2) = tileEdge(w.grid[<<x, y + 1>>].options[1], 0)
        /\ (x > 0 /\ w.grid[<<x - 1, y>>].collapsed)
              => tileEdge(option, 3) = tileEdge(w.grid[<<x - 1, y>>].options[1], 1)

\* propagate: passes over the grid until one changes nothing.  A pass reads of
\* the other cells only the collapsed ones, which it does not change.
RECURSIVE propagate(_)
propagate(w) ==
    LET pass == [c \in DOMAIN w.grid |->
                    IF w.grid[c].collapsed THEN w.grid[c]
                    ELSE [w.grid[c] EXCEPT !.options =
                            Filter(@, {o \in Range(@) : validOption(w, c, o)})]]
    IN  IF pass = w.grid THEN w ELSE propagate([w EXCEPT !.grid = pass])

\* step: the states it may leave, one for each cell and tile it may draw.
step(w) ==
    IF getLowestEntropyCell(w) = {}
    THEN {[w EXCEPT !.isGenerating = FALSE]}
    ELSE {propagate(collapseCell(w, c, k)) :
            <<c, k>> \in {<<d, j>> \in getLowestEntropyCell(w) \X (0..(Len(currentTiles) - 1)) :
                            j < Len(w.grid[d].options)}}

\* draw's loop after a step() returned: `if (!isGenerating) break`, i++, and the
\* handler ends when the loop does.
endTileStep(w) ==
    IF ~w.isGenerating \/ w.i + 1 >= 5
    THEN [w EXCEPT !.pc = "idle", !.i = 0]
    ELSE [w EXCEPT !.pc = "draw", !.i = @ + 1]

\* p.setup in a window of the given size.
setupTiles(width, height) ==
    initTiles([width |-> width, height |-> height, cols |-> 0, rows |-> 0,
               grid |-> << >>, tileSetIndex |-> 0, isGenerating |-> FALSE,
               stepMode |-> FALSE, pc |-> "idle", i |-> 0])

InitWfc ==
    /\ \E w \in TileWindowWidths, h \in TileWindowHeights : wfc = setupTiles(w, h)
    /\ wrapper = NotRunning /\ maze = NotRunning /\ hil = NotRunning
    /\ packing = NotRunning /\ sorting = NotRunning /\ automaton = NotRunning

\* draw calls step() (the first time in a frame, or again in its loop).
WfcDrawStep ==
    /\ \/ wfc.pc = "idle" /\ wfc.isGenerating /\ ~wfc.stepMode
       \/ wfc.pc = "draw"
    /\ \E stepped \in step(wfc) : wfc' = endTileStep(stepped)
    /\ UNCHANGED <<wrapper, maze, hil, packing, sorting, automaton>>

WfcMousePressed ==
    /\ wfc.pc = "idle"
    /\ wfc' = initTiles([wfc EXCEPT !.stepMode = FALSE])
    /\ UNCHANGED <<wrapper, maze, hil, packing, sorting, automaton>>

WfcKeyPressed(key) ==
    /\ wfc.pc = "idle"
    /\ IF key = " "
       THEN IF wfc.isGenerating
            THEN wfc' \in step([wfc EXCEPT !.stepMode = TRUE])
            ELSE wfc' = initTiles([wfc EXCEPT !.stepMode = TRUE])
       ELSE IF key = "1"
       THEN wfc' = initTiles([wfc EXCEPT !.tileSetIndex = 0])
       ELSE wfc' = wfc
    /\ UNCHANGED <<wrapper, maze, hil, packing, sorting, automaton>>

WfcWindowResized(w, h) ==
    /\ wfc.pc = "idle"
    /\ wfc' = initTiles([wfc EXCEPT !.width = w, !.height = h])
    /\ UNCHANGED <<wrapper, maze, hil, packing, sorting, automaton>>

NextWfc ==
    \/ WfcDrawStep
    \/ WfcMousePressed
    \/ \E key \in {" ", "1"} : WfcKeyPressed(key)
    \/ \E w \in TileWindowWidths, h \in TileWindowHeights : WfcWindowResized(w, h)

SpecWfc == InitWfc /\ [][NextWfc]_vars

\* The collapsed cell c holds exactly one tile of the tile set.
HoldsOneTile(w, c) ==
    /\ w.grid[c].collapsed
    /\ Len(w.grid[c].options) = 1
    /\ w.grid[c].options[1] \in 0..(Len(pipeTiles) - 1)

\* C8: two orthogonally adjacent collapsed cells hold tiles whose facing edges
\* are equal: bottom of the upper = top of the lower, right of the left = left
\* of the right.
C8_AdjacentTilesMatch ==
    \A a \in DOMAIN wfc.grid, b \in DOMAIN wfc.grid :
        (wfc.grid[a].collapsed /\ wfc.grid[b].collapsed) =>
            /\ b = <<a[1], a[2] + 1>> =>
                  pipeTiles[wfc.grid[a].options[1] + 1].edges[3]
                      = pipeTiles[wfc.grid[b].options[1] + 1].edges[1]
            /\ b = <<a[1] + 1, a[2]>> =>
                  pipeTiles[wfc.grid[a].options[1] + 1].edges[2]
                      = pipeTiles[wfc.grid[b].options[1] + 1].edges[4]

\* The largest grid, every cell collapsed, with pipes that cross from cell to
\* cell in both directions.
C8_Witness ==
    /\ wfc.cols = MaxTileCols /\ wfc.rows = MaxTileRows
    /\ \A c \in DOMAIN wfc.grid : wfc.grid[c].collapsed
    /\ \E a \in DOMAIN wfc.grid :
          /\ <<a[1] + 1, a[2]>> \in DOMAIN wfc.grid
          /\ pipeTiles[wfc.grid[a].options[1] + 1].edges[2] = "1"
    /\ \E a \in DOMAIN wfc.grid :
          /\ <<a[1], a[2] + 1>> \in DOMAIN wfc.grid
          /\ pipeTiles[wfc.grid[a].options[1] + 1].edges[3] = "1"

MinOrder == 1

MaxOrder == 8

\* newPoints with a last quadrant that is moved but neither rotated nor flipped.
quadrantsUnrotated(points, s) ==
    [k \in 1..Len(points) |-> <<points[k][2], points[k][1]>>]
        \o [k \in 1..Len(points) |-> <<points[k][1], points[k][2] + s>>]
        \o [k \in 1..Len(points) |-> <<points[k][1] + s, points[k][2] + s>>]
        \o [k \in 1..Len(points) |-> <<points[k][1] + s, points[k][2]>>]

\* newPoints of one round of hilbert's loop: the points copied into the four
\* quadrants.
quadrants(points, s) ==
    [k \in 1..Len(points) |-> <<points[k][2], points[k][1]>>]
        \o [k \in 1..Len(points) |-> <<points[k][1], points[k][2] + s>>]
        \o [k \in 1..Len(points) |-> <<points[k][1] + s, points[k][2] + s>>]
        \o [k \in 1..Len(points) |-> <<2 * s - 1 - points[k][2], s - 1 - points[k][1]>>]

\* hilbert's loop `for (let s = 1; s < n; s *= 2)` from the round of s on.
RECURSIVE hilbertFrom(_, _, _)
hilbertFrom(points, s, n) ==
    IF s < n THEN hilbertFrom(quadrants(points, s), s * 2, n) ELSE points

hilbert(n) == hilbertFrom(<< <<0, 0>> >>, 1, n)

\* hilbert(n) for each n generateCurve may pass: Math.pow(2, order).
hilbertOfN == [n \in {2 ^ o : o \in MinOrder..MaxOrder} |-> hilbert(n)]

path(h) == hilbertOfN[h.n]

generateCurve(h) == [h EXCEPT !.n = 2 ^ h.order, !.drawIndex = 0]

InitHilbert ==
    /\ hil = generateCurve([order |-> 5, n |-> 0, drawIndex |-> 0,
                            animating |-> TRUE, colorScheme |-> 0])
    /\ wrapper = NotRunning /\ maze = NotRunning /\ wfc = NotRunning
    /\ packing = NotRunning /\ sorting = NotRunning /\ automaton = NotRunning

\* A frame that moves the marker.
HilbertDraw ==
    /\ hil.animating /\ hil.drawIndex < Len(path(hil))
    /\ LET speed == Max(1, Len(path(hil)) \div 500)
           moved == Min(hil.drawIndex + speed, Len(path(hil)) - 1)
       IN  hil' = [hil EXCEPT !.drawIndex = moved,
                              !.animating = ~(moved >= Len(path(hil)) - 1)]
    /\ UNCHANGED <<wrapper, maze, wfc, packing, sorting, automaton>>

HilbertMousePressed ==
    /\ hil' = generateCurve([hil EXCEPT !.animating = TRUE])
    /\ UNCHANGED <<wrapper, maze, wfc, packing, sorting, automaton>>

HilbertKeyPressed(key) ==
    /\ IF key \in {"+", "="}
       THEN hil' = generateCurve([hil EXCEPT !.order = Min(MaxOrder, @ + 1),
                                             !.animating = TRUE])
       ELSE IF key \in {"-", "_"}
       THEN hil' = generateCurve([hil EXCEPT !.order = Max(MinOrder, @ - 1),
                                             !.animating = TRUE])
       ELSE IF key = "1" THEN hil' = [hil EXCEPT !.colorScheme = 0]
       ELSE IF key = "2" THEN hil' = [hil EXCEPT !.colorScheme = 1]
       ELSE IF key = "3" THEN hil' = [hil EXCEPT !.colorScheme = 2]
       ELSE hil' = hil
    /\ UNCHANGED <<wrapper, maze, wfc, packing, sorting, automaton>>

HilbertWindowResized ==
    /\ hil' = generateCurve(hil)
    /\ UNCHANGED <<wrapper, maze, wfc, packing, sorting, automaton>>

NextHilbert ==
    \/ HilbertDraw
    \/ HilbertMousePressed
    \/ \E key \in {"+", "=", "-", "_", "1", "2", "3"} : HilbertKeyPressed(key)
    \/ HilbertWindowResized

SpecHilbert == InitHilbert /\ [][NextHilbert]_vars

\* The points are the n*n points of the grid [0, n) x [0, n), each once, and
\* each differs from the one before by exactly 1 in exactly one coordinate.
VisitsGridByUnitMoves(points, n) ==
    /\ Len(points) = n * n
    /\ \A k \in 1..Len(points) : points[k] \in (0..(n - 1)) \X (0..(n - 1))
    /\ Cardinality({points[k] : k \in 1..Len(points)}) = n * n
    /\ \A k \in 1..(Len(points) - 1) :
          \/ /\ points[k + 1][1] = points[k][1]
             /\ points[k + 1][2] - points[k][2] \in {-1, 1}
          \/ /\ points[k + 1][2] = points[k][2]
             /\ points[k + 1][1] - points[k][1] \in {-1, 1}

\* The curves, of those generateCurve may produce, for which this is so.
CurvesThatVisitGrid ==
    {n \in DOMAIN hilbertOfN : VisitsGridByUnitMoves(hilbertOfN[n], n)}

\* C10: for the order on screen, any of 1..8, and n = 2^order, hilbert(n) is
\* exactly the n*n integer points of [0, n) x [0, n), each once, and every two
\* consecutive points differ by exactly 1 in exactly one coordinate.
C10_HilbertVisitsGridByUnitMoves ==
    /\ hil.order \in MinOrder..MaxOrder
    /\ hil.n = 2 ^ hil.order
    /\ hil.n \in CurvesThatVisitGrid

\* The curve of the highest order, drawn to its last point.
C10_Witness ==
    /\ hil.order = MaxOrder
    /\ ~hil.animating
    /\ hil.drawIndex = hil.n * hil.n - 1
    /\ hil.n \in CurvesThatVisitGrid

(***************************************************************************)
(* sketches/circlePacking.                                                 *)
(*                                                                         *)
(* packing.width, packing.height  the canvas size (p.width, p.height)      *)
(* packing.circles, finished: the sketch's variables.  A circle has its    *)
(* centre x, y, its growing flag and its radius; the radius moves in steps *)
(* of 0.5, so r counts half pixels (the code's r is r / 2).  The centres   *)
(* p.random draws are the points of the canvas with integer coordinates.   *)
(* packing.pc, packing.i: whether draw is in its first loop ("add": before *)
(* its next round; "idle": no handler runs) and the loop variable i.       *)
(***************************************************************************)
maxCircles == 1000

\* The most circles explored, and the largest canvas, in pixels.
MaxPacked == 3

MaxPackWidth == 8

MaxPackHeight == 4

PackWidths == {MaxPackWidth - 1, MaxPackWidth}

PackHeights == {MaxPackHeight}

\* p.dist squared.
distSquared(x1, y1, x2, y2) == (x1 - x2) * (x1 - x2) + (y1 - y2) * (y1 - y2)

\* addNewCircle: `valid` for the point x, y: no circle c has d < c.r + 2.
validCentre(p, x, y) ==
    \A k \in 1..Len(p.circles) :
        ~(4 * distSquared(x, y, p.circles[k].x, p.circles[k].y)
            < (p.circles[k].r + 4) * (p.circles[k].r + 4))

\* addNewCircle: what it may return, a circle of radius 1 at a valid point or,
\* when attempts can fail, null (the empty sequence).
addNewCircle(p) ==
    LET points == (0..(p.width - 1)) \X (0..(p.height - 1))
    IN  {<<[x |-> pt[1], y |-> pt[2], r |-> 2, growing |-> TRUE]>> :
            pt \in {q \in points : validCentre(p, q[1], q[2])}}
        \cup (IF \E q \in points : ~validCentre(p, q[1], q[2]) THEN {<<>>} ELSE {})

\* isColliding that checks the edges of the canvas only.
isCollidingEdgesOnly(p, k) ==
    LET circle == p.circles[k]
    IN  \/ 2 * circle.x - circle.r < 0 \/ 2 * circle.x + circle.r > 2 * p.width
        \/ 2 * circle.y - circle.r < 0 \/ 2 * circle.y + circle.r > 2 * p.height

\* isColliding(circles[k]): over an edge, or d < circle.r + other.r + 1 for
\* another circle.
isColliding(p, k) ==
    LET circle == p.circles[k]
    IN  \/ 2 * circle.x - circle.r < 0 \/ 2 * circle.x + circle.r > 2 * p.width
        \/ 2 * circle.y - circle.r < 0 \/ 2 * circle.y + circle.r > 2 * p.height
        \/ \E j \in 1..Len(p.circles) :
              /\ j # k
              /\ 4 * distSquared(circle.x, circle.y, p.circles[j].x, p.circles[j].y)
                    < (circle.r + p.circles[j].r + 2) * (circle.r + p.circles[j].r + 2)

\* draw's second loop from circle k on, then the test that ends the packing.
RECURSIVE growCircles(_, _, _)
growCircles(p, k, stillGrowing) ==
    IF k > Len(p.circles)
    THEN [p EXCEPT !.finished = ~stillGrowing /\ Len(p.circles) >= maxCircles]
    ELSE IF p.circles[k].growing
    THEN LET grown == [p EXCEPT !.circles[k].r = @ + 1]
         IN  IF isColliding(grown, k)
             THEN growCircles([p EXCEPT !.circles[k].growing = FALSE], k + 1, stillGrowing)
             ELSE growCircles(grown, k + 1, TRUE)
    ELSE growCircles(p, k + 1, stillGrowing)

\* One round of draw's first loop; made is what addNewCircle returned.
addRound(p, made) ==
    IF Len(p.circles) < maxCircles /\ Len(p.circles) < MaxPacked
    THEN [p EXCEPT !.circles = @ \o made]
    ELSE p

\* After a round of the first loop: i++, and after the last round the second
\* loop and the end of the frame.
endAddRound(p) ==
    IF p.i + 1 >= 5
    THEN [growCircles(p, 1, FALSE) EXCEPT !.pc = "idle", !.i = 0]
    ELSE [p EXCEPT !.pc = "add", !.i = @ + 1]

\* p.setup in a window of the given size.
setupPacking(width, height) ==
    [width |-> width, height |-> height, circles |-> <<>>, finished |-> FALSE,
     pc |-> "idle", i |-> 0]

InitPacking ==
    /\ \E w \in PackWidths, h \in PackHeights : packing = setupPacking(w, h)
    /\ wrapper = NotRunning /\ maze = NotRunning /\ wfc = NotRunning
    /\ hil = NotRunning /\ sorting = NotRunning /\ automaton = NotRunning

\* draw goes through one round of its first loop (the first of a frame, or the
\* next), and after the fifth grows the circles.
PackingDrawRound ==
    /\ \/ packing.pc = "idle" /\ ~packing.finished
       \/ packing.pc = "add"
    /\ \E made \in addNewCircle(packing) :
           packing' = endAddRound(addRound(packing, made))
    /\ UNCHANGED <<wrapper, maze, wfc, hil, sorting, automaton>>

PackingWindowResized(w, h) ==
    /\ packing.pc = "idle"
    /\ packing' = [packing EXCEPT !.width = w, !.height = h,
                                  !.circles = <<>>, !.finished = FALSE]
    /\ UNCHANGED <<wrapper, maze, wfc, hil, sorting, automaton>>

PackingMousePressed ==
    /\ packing.pc = "idle"
    /\ packing' = [packing EXCEPT !.circles = <<>>, !.finished = FALSE]
    /\ UNCHANGED <<wrapper, maze, wfc, hil, sorting, automaton>>

NextPacking ==
    \/ PackingDrawRound
    \/ \E w \in PackWidths, h \in PackHeights : PackingWindowResized(w, h)
    \/ PackingMousePressed

SpecPacking == InitPacking /\ [][NextPacking]_vars

\* C11: after every draw frame, the centres of any two distinct circles are at
\* least the sum of their radii apart.
C11_CirclesDoNotOverlap ==
    packing.pc = "idle" =>
        \A j \in 1..Len(packing.circles), k \in 1..Len(packing.circles) :
            j # k =>
                4 * distSquared(packing.circles[j].x, packing.circles[j].y,
                                packing.circles[k].x, packing.circles[k].y)
                    >= (packing.circles[j].r + packing.circles[k].r)
                         * (packing.circles[j].r + packing.circles[k].r)

\* A frame has ended with two circles that grew until each other stopped them:
\* neither is growing and one more half pixel on either would bring them
\* within a pixel of each other.
C11_Witness ==
    /\ packing.pc = "idle"
    /\ \E j \in 1..Len(packing.circles), k \in 1..Len(packing.circles) :
          /\ j # k
          /\ ~packing.circles[j].growing /\ ~packing.circles[k].growing
          /\ packing.circles[j].r > 2 /\ packing.circles[k].r > 2
          /\ 4 * distSquared(packing.circles[j].x, packing.circles[j].y,
                             packing.circles[k].x, packing.circles[k].y)
                < (packing.circles[j].r + packing.circles[k].r + 3)
                    * (packing.circles[j].r + packing.circles[k].r + 3)

(***************************************************************************)
(* sketches/pixelSorting.                                                  *)
(*                                                                         *)
(* sorting.width, sorting.height  the canvas size (p.width, p.height)      *)
(* sorting.img, sortedImg, sortMode, horizontal, threshold, isSorted: the  *)
(* sketch's variables.  An image is its pixel array, one entry [r, g, b]   *)
(* per pixel (alpha is always 255), the pixel x, y at place y * width + x  *)
(* (+ 1: sequences count from 1).  threshold counts tenths.  draw leaves   *)
(* the color mode RGB 0..255, in which getSortValue reads its arguments.   *)
(* Sort values are kept times 60, which makes them integers for the colors *)
(* of the palette.                                                         *)
(***************************************************************************)
\* The largest canvas explored: its longest side and its pixels.
MaxSortSide == 3

MaxSortPixels == 4

SortSizes ==
    {wh \in (1..MaxSortSide) \X (1..MaxSortSide) : wh[1] * wh[2] <= MaxSortPixels}

\* The colors generatePattern may give a pixel: a dark grey, a green and a blue
\* (brightness 20, 60, 80; hue 0, 150, 240; saturation 0, 66.7, 50).
Palette ==
    { [r |-> 51, g |-> 51, b |-> 51],
      [r |-> 51, g |-> 153, b |-> 102],
      [r |-> 102, g |-> 102, b |-> 204] }

\* The images generatePattern may produce on a canvas of this size.
Patterns(width, height) == [1..(width * height) -> Palette]

Max3(a, b, c) == Max(a, Max(b, c))

Min3(a, b, c) == Min(a, Min(b, c))

\* p.brightness, p.hue and p.saturation of p.color(r, g, b), times 60.
brightness60(c) == (6000 * Max3(c.r, c.g, c.b)) \div 255

saturation60(c) ==
    IF Max3(c.r, c.g, c.b) = 0 THEN 0
    ELSE (6000 * (Max3(c.r, c.g, c.b) - Min3(c.r, c.g, c.b))) \div Max3(c.r, c.g, c.b)

hue60(c) ==
    LET val == Max3(c.r, c.g, c.b)
        chroma == val - Min3(c.r, c.g, c.b)
        sixth == IF c.r = val THEN (3600 * (c.g - c.b)) \div chroma
                 ELSE IF c.g = val THEN 7200 + (3600 * (c.b - c.r)) \div chroma
                 ELSE 14400 + (3600 * (c.r - c.g)) \div chroma
    IN  IF chroma = 0 THEN 0
        ELSE IF sixth < 0 THEN sixth + 21600
        ELSE IF sixth >= 21600 THEN sixth - 21600
        ELSE sixth

\* getSortValue (times 60).
getSortValue(sortMode, c) ==
    IF sortMode = 0 THEN brightness60(c)
    ELSE IF sortMode = 1 THEN hue60(c)
    ELSE IF sortMode = 2 THEN saturation60(c)
    ELSE brightness60(c)

\* normalized > threshold, for normalized = value / 100.
aboveThreshold(value60, threshold) == value60 > 600 * threshold

\* A segment left in the reverse of its order.
sortSegmentReversed(segment, sortMode) ==
    [n \in 1..Len(segment) |-> segment[Len(segment) + 1 - n]]

\* segment.sort((a, b) => a.value - b.value): by value, equal values in their
\* order (the sort is stable).
sortSegment(segment, sortMode) ==
    LET value(k) == getSortValue(sortMode, segment[k])
        place(k) == Cardinality({j \in 1..Len(segment) :
                                    \/ value(j) < value(k)
                                    \/ value(j) = value(k) /\ j <= k})
    IN  [n \in 1..Len(segment) |-> segment[CHOOSE k \in 1..Len(segment) : place(k) = n]]

\* The loop `for (let x = 0; x <= row.length; x++)` from x on; sortStart is -1
\* or the start of the open segment.
RECURSIVE sortSegments(_, _, _, _, _)
sortSegments(row, x, sortStart, sortMode, threshold) ==
    IF x > Len(row) THEN row
    ELSE LET above == x < Len(row)
                         /\ aboveThreshold(getSortValue(sortMode, row[x + 1]), threshold)
         IN  IF above /\ sortStart = -1
             THEN sortSegments(row, x + 1, x, sortMode, threshold)
             ELSE IF ~above /\ sortStart # -1
             THEN sortSegments(SubSeq(row, 1, sortStart)
                                  \o sortSegment(SubSeq(row, sortStart + 1, x), sortMode)
                                  \o SubSeq(row, x + 1, Len(row)),
                               x + 1, -1, sortMode, threshold)
             ELSE sortSegments(row, x + 1, sortStart, sortMode, threshold)

\* The pixels of row y, and of column x, of an image.
rowOf(pixels, width, y) == [x \in 1..width |-> pixels[y * width + x]]

colOf(pixels, width, height, x) == [y \in 1..height |-> pixels[(y - 1) * width + x + 1]]

\* applyPixelSort.
applyPixelSort(s) ==
    LET rows == [y \in 0..(s.height - 1) |->
                    sortSegments(rowOf(s.img, s.width, y), 0, -1, s.sortMode, s.threshold)]
        cols == [x \in 0..(s.width - 1) |->
                    sortSegments(colOf(s.img, s.width, s.height, x), 0, -1,
                                 s.sortMode, s.threshold)]
    IN  [s EXCEPT !.sortedImg =
                      [k \in 1..(s.width * s.height) |->
                          IF s.horizontal
                          THEN rows[(k - 1) \div s.width][((k - 1) % s.width) + 1]
                          ELSE cols[(k - 1) % s.width][((k - 1) \div s.width) + 1]],
                  !.isSorted = TRUE]

\* generatePattern; pattern is the image the noise and the shapes make.
generatePattern(s, pattern) ==
    [s EXCEPT !.img = pattern, !.sortedImg = pattern, !.isSorted = FALSE]

InitSorting ==
    /\ \E wh \in SortSizes : \E pattern \in Patterns(wh[1], wh[2]) :
          sorting = [running |-> TRUE, width |-> wh[1], height |-> wh[2], img |-> pattern,
                     sortedImg |-> pattern, sortMode |-> 0, horizontal |-> TRUE,
                     threshold |-> 3, isSorted |-> FALSE]
    /\ wrapper = NotRunning /\ maze = NotRunning /\ wfc = NotRunning
    /\ hil = NotRunning /\ packing = NotRunning /\ automaton = NotRunning

SortingMousePressed ==
    /\ \E pattern \in Patterns(sorting.width, sorting.height) :
          sorting' = generatePattern(sorting, pattern)
    /\ UNCHANGED <<wrapper, maze, wfc, hil, packing, automaton>>

SortingKeyPressed(key) ==
    /\ sorting' =
          IF key = " " THEN applyPixelSort(sorting)
          ELSE IF key = "1" THEN [sorting EXCEPT !.sortMode = 0]
          ELSE IF key = "2" THEN [sorting EXCEPT !.sortMode = 1]
          ELSE IF key = "3" THEN [sorting EXCEPT !.sortMode = 2]
          ELSE IF key \in {"h", "H"} THEN [sorting EXCEPT !.horizontal = TRUE]
          ELSE IF key \in {"v", "V"} THEN [sorting EXCEPT !.horizontal = FALSE]
          ELSE IF key \in {"+", "="} THEN [sorting EXCEPT !.threshold = Min(9, @ + 1)]
          ELSE IF key \in {"-", "_"} THEN [sorting EXCEPT !.threshold = Max(1, @ - 1)]
          ELSE sorting
    /\ UNCHANGED <<wrapper, maze, wfc, hil, packing, automaton>>

SortingWindowResized(width, height) ==
    /\ \E pattern \in Patterns(width, height) :
          sorting' = generatePattern([sorting EXCEPT !.width = width, !.height = height],
                                     pattern)
    /\ UNCHANGED <<wrapper, maze, wfc, hil, packing, automaton>>

NextSorting ==
    \/ SortingMousePressed
    \/ \E key \in {" ", "1", "2", "3", "h", "H", "v", "V", "+", "=", "-", "_"} :
          SortingKeyPressed(key)
    \/ \E wh \in SortSizes : SortingWindowResized(wh[1], wh[2])

SpecSorting == InitSorting /\ [][NextSorting]_vars

\* The places of the pixels of every row (of every column in vertical mode).
SortLines(s) ==
    IF s.horizontal
    THEN {[x \in 1..s.width |-> y * s.width + x] : y \in 0..(s.height - 1)}
    ELSE {[y \in 1..s.height |-> (y - 1) * s.width + x] : x \in 1..s.width}

\* sortedImg is img with only the above-threshold runs of each line reordered.
OnlyRunsReordered(s) ==
    \A line \in SortLines(s) :
        LET value(c) == getSortValue(s.sortMode, c)
            above(c) == value(c) > 600 * s.threshold
        IN  /\ \A c \in Palette :
                  Cardinality({n \in DOMAIN line : s.sortedImg[line[n]] = c})
                      = Cardinality({n \in DOMAIN line : s.img[line[n]] = c})
            /\ \A n \in DOMAIN line :
                  ~above(s.img[line[n]]) => s.sortedImg[line[n]] = s.img[line[n]]
            /\ \A n \in 1..(Len(line) - 1) :
                  above(s.sortedImg[line[n]]) /\ above(s.sortedImg[line[n + 1]])
                      => value(s.sortedImg[line[n]]) <= value(s.sortedImg[line[n + 1]])

\* C12: after applyPixelSort, each row of sortedImg (each column in vertical
\* mode) is a permutation of the same row of img, every pixel whose sort
\* value / 100 is at most threshold is at its original place, and the pixels of
\* each maximal run above threshold are in non-decreasing order of sort value.
\* (The states applyPixelSort leaves are the states it would not change: it
\* reads img, sortMode, horizontal and threshold and writes sortedImg, isSorted.)
C12_SortOnlyReordersRuns ==
    (sorting.running /\ sorting = applyPixelSort(sorting)) => OnlyRunsReordered(sorting)

\* A sort has moved pixels of a line that also holds a pixel at or below
\* threshold.
C12_Witness ==
    /\ sorting.running
    /\ sorting.isSorted
    /\ sorting = applyPixelSort(sorting)
    /\ \E line \in SortLines(sorting) :
          /\ \E n \in DOMAIN line : sorting.sortedImg[line[n]] # sorting.img[line[n]]
          /\ \E n \in DOMAIN line :
                getSortValue(sorting.sortMode, sorting.img[line[n]])
                    <= 600 * sorting.threshold

(***************************************************************************)
(* sketches/cellularAutomata.                                              *)
(*                                                                         *)
(* automaton.width, automaton.height  the canvas size (p.width, p.height)  *)
(* automaton.cells, cellSize, numCells, currentRow, rule, ruleSet,         *)
(* colorMode: the sketch's variables; cells[i] of the code is cells[i + 1] *)
(* here, and so for ruleSet.  baseHue only colors the drawing and is left  *)
(* out.                                                                    *)
(* automaton.looping  whether the library calls draw (p.loop, p.noLoop)    *)
(* automaton.timers   the setTimeout callbacks that have not yet run       *)
(***************************************************************************)
rowsPerFrame == 3

MinCellSize == 2

MaxCellSize == 10

\* The largest canvas explored, and the most callbacks pending at a time.
MaxCaWidth == 8

MaxCaHeight == 8

MaxTimers == 2

CaWidths == {MaxCaWidth - 1, MaxCaWidth}

CaHeights == {MaxCaHeight}

\* Math.floor(p.random(256)).
Rules == 0..255

\* The rules a click or a restart draws in the runs with every handler.
RandomRules == {0, 150}

\* Math.ceil(a / b).
ceilDiv(a, b) == (a + b - 1) \div b

\* generateRuleSet: ruleSet[i] = (ruleNumber >> i) & 1.
generateRuleSet(ruleNumber) == [k \in 1..8 |-> (ruleNumber \div (2 ^ (k - 1))) % 2]

\* The rows initializeCA may make: a single cell in the middle, or any row.
InitialCells(numCells) ==
    {[k \in 1..numCells |-> IF k = (numCells \div 2) + 1 THEN 1 ELSE 0]}
        \cup [1..numCells -> {0, 1}]

\* initializeCA: the states it may leave.
initializeCA(a) ==
    {[a EXCEPT !.numCells = ceilDiv(a.width, a.cellSize),
               !.cells = cells,
               !.currentRow = 0,
               !.ruleSet = generateRuleSet(a.rule)] :
        cells \in InitialCells(ceilDiv(a.width, a.cellSize))}

\* The next generation with the neighbours taken the wrong way round.
calculateNextGenerationMirrored(a) ==
    [a EXCEPT !.cells =
        [k \in 1..a.numCells |->
            LET left == a.cells[((k - 2 + a.numCells) % a.numCells) + 1]
                center == a.cells[k]
                right == a.cells[(k % a.numCells) + 1]
            IN  a.ruleSet[right * 4 + center * 2 + left + 1]]]

\* calculateNextGeneration (k is i + 1).
calculateNextGeneration(a) ==
    [a EXCEPT !.cells =
        [k \in 1..a.numCells |->
            LET left == a.cells[((k - 2 + a.numCells) % a.numCells) + 1]
                center == a.cells[k]
                right == a.cells[(k % a.numCells) + 1]
            IN  a.ruleSet[left * 4 + center * 2 + right + 1]]]

\* draw's loop `for (let r = 0; r < rowsPerFrame; r++)` from r on.
RECURSIVE drawRows(_, _)
drawRows(a, r) ==
    IF r >= rowsPerFrame THEN a
    ELSE IF a.currentRow * a.cellSize < a.height
    THEN drawRows([calculateNextGeneration(a) EXCEPT !.currentRow = @ + 1], r + 1)
    ELSE [a EXCEPT !.timers = @ + 1, !.looping = FALSE]

\* The state before setup's initializeCA.
automatonVariables(width, height) ==
    [running |-> TRUE, width |-> width, height |-> height, cells |-> <<>>,
     cellSize |-> 4, numCells |-> 0, currentRow |-> 0, rule |-> 30,
     ruleSet |-> <<>>, colorMode |-> "gradient", looping |-> TRUE, timers |-> 0]

InitAutomaton ==
    /\ \E width \in CaWidths, height \in CaHeights :
          automaton \in initializeCA(automatonVariables(width, height))
    /\ wrapper = NotRunning /\ maze = NotRunning /\ wfc = NotRunning
    /\ hil = NotRunning /\ packing = NotRunning /\ sorting = NotRunning

\* A run of any rule on any row, as a click and the keys + and - start it.
InitAnyRule ==
    /\ \E width \in CaWidths, height \in CaHeights, rule \in Rules,
          cellSize \in MinCellSize..MaxCellSize :
          automaton \in initializeCA([automatonVariables(width, height)
                                         EXCEPT !.rule = rule, !.cellSize = cellSize])
    /\ wrapper = NotRunning /\ maze = NotRunning /\ wfc = NotRunning
    /\ hil = NotRunning /\ packing = NotRunning /\ sorting = NotRunning

AutomatonDraw ==
    /\ automaton.looping
    /\ drawRows(automaton, 0).timers <= MaxTimers
    /\ automaton' = drawRows(automaton, 0)
    /\ UNCHANGED <<wrapper, maze, wfc, hil, packing, sorting>>

\* The callback of setTimeout.
AutomatonTimer ==
    /\ automaton.timers > 0
    /\ \E rule \in RandomRules :
          automaton' \in initializeCA([automaton EXCEPT !.rule = rule, !.timers = @ - 1])
    /\ UNCHANGED <<wrapper, maze, wfc, hil, packing, sorting>>

AutomatonMousePressed ==
    /\ \E rule \in RandomRules :
          automaton' \in initializeCA([automaton EXCEPT !.rule = rule, !.looping = TRUE])
    /\ UNCHANGED <<wrapper, maze, wfc, hil, packing, sorting>>

AutomatonKeyPressed(key) ==
    /\ IF key \in {"r", "R"}
       THEN automaton' \in initializeCA([automaton EXCEPT !.looping = TRUE])
       ELSE IF key = "1" THEN automaton' = [automaton EXCEPT !.colorMode = "classic"]
       ELSE IF key = "2" THEN automaton' = [automaton EXCEPT !.colorMode = "gradient"]
       ELSE IF key = "3" THEN automaton' = [automaton EXCEPT !.colorMode = "hue"]
       ELSE IF key \in {"a", "A"}
       THEN automaton' \in initializeCA([automaton EXCEPT !.rule = 30, !.looping = TRUE])
       ELSE IF key \in {"b", "B"}
       THEN automaton' \in initializeCA([automaton EXCEPT !.rule = 90, !.looping = TRUE])
       ELSE IF key \in {"c", "C"}
       THEN automaton' \in initializeCA([automaton EXCEPT !.rule = 110, !.looping = TRUE])
       ELSE IF key \in {"d", "D"}
       THEN automaton' \in initializeCA([automaton EXCEPT !.rule = 184, !.looping = TRUE])
       ELSE IF key \in {"+", "="}
       THEN automaton' \in initializeCA([automaton EXCEPT
                                            !.cellSize = Min(@ + 1, MaxCellSize),
                                            !.looping = TRUE])
       ELSE IF key \in {"-", "_"}
       THEN automaton' \in initializeCA([automaton EXCEPT
                                            !.cellSize = Max(@ - 1, MinCellSize),
                                            !.looping = TRUE])
       ELSE automaton' = automaton
    /\ UNCHANGED <<wrapper, maze, wfc, hil, packing, sorting>>

AutomatonWindowResized(width, height) ==
    /\ automaton' \in initializeCA([automaton EXCEPT !.width = width, !.height = height,
                                                     !.looping = TRUE])
    /\ UNCHANGED <<wrapper, maze, wfc, hil, packing, sorting>>

NextAutomaton ==
    \/ AutomatonDraw
    \/ AutomatonTimer
    \/ AutomatonMousePressed
    \/ \E key \in {"r", "1", "2", "3", "a", "b", "c", "d", "+", "-"} :
          AutomatonKeyPressed(key)
    \/ \E width \in CaWidths, height \in CaHeights : AutomatonWindowResized(width, height)

SpecAutomaton == InitAutomaton /\ [][NextAutomaton]_vars

\* The generations of every rule on every row.
SpecRule == InitAnyRule /\ [][AutomatonDraw]_vars

\* Bit k of the number n in binary: whether what is left of n after taking out
\* the multiples of 2^(k+1) reaches 2^k.
RuleBit(n, k) == IF n % (2 ^ (k + 1)) >= 2 ^ k THEN 1 ELSE 0

\* C13: for the rule shown as 'Rule N' and a row of numCells >= 1 binary cells,
\* calculateNextGeneration sets each cell i to bit 4 * left + 2 * center + right
\* of the rule number, left and right being the cells i - 1 and i + 1 modulo
\* numCells.
C13_NextGenerationFollowsRule ==
    automaton.running =>
        /\ automaton.numCells >= 1
        /\ \A i \in 0..(automaton.numCells - 1) :
              LET left == automaton.cells[((i - 1) % automaton.numCells) + 1]
                  center == automaton.cells[i + 1]
                  right == automaton.cells[((i + 1) % automaton.numCells) + 1]
              IN  calculateNextGeneration(automaton).cells[i + 1]
                      = RuleBit(automaton.rule, 4 * left + 2 * center + right)

\* Rows of rule 110, which tells left from right, have been generated, and the
\* next one differs from the row it comes from.
C13_Witness ==
    /\ automaton.running
    /\ automaton.rule = 110
    /\ automaton.currentRow > 0
    /\ automaton.numCells >= 3
    /\ calculateNextGeneration(automaton).cells # automaton.cells

\* C14: while a run the user started is going and a restart scheduled by an
\* earlier run is pending (only the user starts the loop again, and the one who
\* schedules a restart stops it), the callback of that restart changes none of
\* cells, rule and currentRow.
C14_TimerLeavesUserRunAlone ==
    [][(/\ automaton.running
        /\ automaton.looping
        /\ automaton.timers > 0
        /\ automaton'.timers < automaton.timers)
          => /\ automaton'.cells = automaton.cells
             /\ automaton'.rule = automaton.rule
             /\ automaton'.currentRow = automaton.currentRow]_vars
====
